---- MODULE Spec2Model ----
(***************************************************************************)
(* State-machine model of the short-URL backend: short-code allocation     *)
(* with collision recovery (controllers/urlController.js, models/Url.js)   *)
(* and click recording (controllers/redirectController.js,                 *)
(* Url.methods.incrementClicks).                                           *)
(*                                                                         *)
(* Every await on the document store is one step of a request, so requests *)
(* interleave exactly at the store calls.  A short code is a sequence of   *)
(* indexes into the 64-character alphabet of generateShortCode             *)
(* (0..25 = a-z, 26..51 = A-Z, 52..61 = 0-9, 62 = '_', 63 = '-'); the      *)
(* value 64 stands for any character outside that alphabet.                *)
(***************************************************************************)
EXTENDS Integers, Sequences, FiniteSets, TLC

(***************************************************************************)
(* Bounds of the model.                                                    *)
(***************************************************************************)
\* number of documents the Url collection may ever hold in a run
MaxRecords == 2
\* clock ticks (Date.now() readings) explored by the click specification
MaxTime == 4
\* clock ticks per calendar day
TicksPerDay == 2
\* click updates applied in one run of the click specification
MaxClicks == 4
\* clicks of one URL in the body of one bulk-clicks request
MaxBulk == 2
\* scaled stand-in for maxAttempts = 50 of generateShortCode
maxAttempts == 2
\* scaled stand-in for the $slice: -1000 window of recentClicks
RecentCap == 2
\* scaled stand-in for the $slice: -365 window of dailyStats
DailyCap == 2
\* scaled stand-in for the 7 of sevenDaysAgo: the days the weekly window spans
WeekDays == 1

(***************************************************************************)
(* Input domains.                                                          *)
(***************************************************************************)
Users == {"u1", "u2"}
\* the account whose requests create records; the other one only tries to
\* edit and delete them
Creators == {"u1"}
Urls == {"https://a.example", "https://b.example"}
CreateReqs == {"c1", "c2"}
ClickReqs == {"k1", "k2"}

NoCode == << >>
NoId == 0
NoTime == -1
\* no Referer header: clickData.referer is undefined
NoReferer == ""
\* a request with no authenticated user
NoUser == ""
\* Referer headers of the visitors: none, two pages of one site, and a value
\* that is no absolute URL
Referers == { NoReferer, "https://news.example/post", "https://news.example/feed",
              "news.example" }
\* expiryDate values of the created record: none, or a time after creation
ExpiryDates == { NoTime, 2 }

\* values of crypto.randomBytes(length)[i] the model draws from
RandomByteValues == {0, 65}
\* customCode values of the request body: "aaaaaa" (can collide with a
\* generated code) and "ab" (too short)
CustomCodes == { <<0, 0, 0, 0, 0, 0>>, <<0, 1>> }
\* further customCode values that break the format rules: "abc", "aaa!"
\* (a character outside the alphabet) and eleven characters
MalformedCodes == { <<0, 1, 2>>, <<0, 0, 0, 64>>, [i \in 1..11 |-> 0] }

VARIABLES
  store,     \* the Url collection: a set of documents
  nextId,    \* next _id the store assigns
  now,       \* the wall clock (Date.now()), in ticks
  creq,      \* createShortUrl requests in flight: locals and response
  kreq,      \* redirectToOriginal requests in flight: locals and response
  hist,      \* history of applied click updates, per document id
  acct       \* the User collection: totalClicks of each account, with the
             \* setImmediate callbacks still to run and those that have run

vars == <<store, nextId, now, creq, kreq, hist, acct>>

(***************************************************************************)
(* Pure helpers.                                                           *)
(***************************************************************************)
Max(a, b) == IF a >= b THEN a ELSE b
Min(a, b) == IF a <= b THEN a ELSE b

\* the array kept whole, whatever its length
NoSlice(s, n) == s

\* the first n elements kept: $slice: n
SliceFirst(s, n) == IF Len(s) <= n THEN s ELSE SubSeq(s, 1, n)

\* $slice: -n of a $push: keep the last n elements
SliceLast(s, n) == IF Len(s) <= n THEN s ELSE SubSeq(s, Len(s) - n + 1, Len(s))

\* characters.charAt(byte % characters.length)
AlphabetSize == 64
CharOfByte(b) == b % AlphabetSize

\* a format rule without the lower bound on the length
isValidShortCodeNoMinimum(code) ==
  /\ Len(code) >= 1
  /\ \A i \in 1..Len(code) : code[i] \in 0..(AlphabetSize - 1)
  /\ Len(code) <= 10

\* /^[a-zA-Z0-9_-]+$/.test(code) && 4 <= code.length <= 10
isValidShortCode(code) ==
  /\ Len(code) >= 1
  /\ \A i \in 1..Len(code) : code[i] \in 0..(AlphabetSize - 1)
  /\ Len(code) >= 4
  /\ Len(code) <= 10

\* new Date(now.getFullYear(), now.getMonth(), now.getDate())
DayStart(t) == t - (t % TicksPerDay)

\* digit d of Number.prototype.toString(36), as an index into the alphabet:
\* '0'..'9' are characters 52..61, 'a'..'z' are characters 0..25
Base36Char(d) == IF d < 10 THEN 52 + d ELSE d - 10

\* Date.now().toString(36): today's millisecond clock has eight base-36
\* digits; the clock of the model is EpochMs + now with EpochMs a multiple of
\* 36^3, so the first five digits are fixed and the last three encode now
EpochDigits == <<21, 25, 1, 20, 2>>
DateNowBase36(t) ==
  [i \in 1..5 |-> Base36Char(EpochDigits[i])] \o
  << Base36Char((t \div 1296) % 36), Base36Char((t \div 36) % 36), Base36Char(t % 36) >>

\* Math.random().toString(36).substring(2, 8): values the model draws from
RandomTails == { <<Base36Char(7), Base36Char(11)>> }

\* (timestamp + random).substring(0, Math.max(length, 8))
FallbackCode(t, random, length) ==
  LET s == DateNowBase36(t) \o random
  IN  SubSeq(s, 1, Min(Len(s), Max(length, 8)))

\* one candidate of the attempt loop: `length` characters, one per random byte
RandomCode(bytes) == [i \in 1..Len(bytes) |-> CharOfByte(bytes[i])]

\* crypto.randomBytes(length) values the model draws from
RandomBytes(length) == { [i \in 1..length |-> b] : b \in RandomByteValues }

\* default parameter of generateShortCode (both call sites use it)
DefaultLength == 6

(***************************************************************************)
(* The Url collection.                                                     *)
(***************************************************************************)
\* Url.findOne({ shortCode })
FindByShortCode(code) == { d \in store : d.shortCode = code }

\* Url.findById(id)
FindById(id) == { d \in store : d.id = id }

\* Url.findOne({ userId, originalUrl, isActive: true })
FindActiveByOwnerUrl(u, url) ==
  { d \in store : d.userId = u /\ d.originalUrl = url /\ d.isActive }

\* a collection without the unique index on shortCode
NoShortCodeIndex(doc, others) == FALSE

\* a unique index on the pair (shortCode, originalUrl)
ShortCodeIndexPerUrl(doc, others) ==
  \E d \in others : d.shortCode = doc.shortCode /\ d.originalUrl = doc.originalUrl

\* unique index of the schema path shortCode, checked against `others`
ViolatesShortCodeIndex(doc, others) ==
  \E d \in others : d.shortCode = doc.shortCode

\* the compound index declared without { unique: true }
NoOwnerUrlIndex(doc, others) == FALSE

\* unique index { userId: 1, originalUrl: 1, isActive: 1 }
ViolatesOwnerUrlIndex(doc, others) ==
  \E d \in others : /\ d.userId = doc.userId
                    /\ d.originalUrl = doc.originalUrl
                    /\ d.isActive = doc.isActive

\* the document Url.create(urlData) inserts: schema defaults for the rest
NewDoc(id, code, u, url) ==
  [ id |-> id, shortCode |-> code, userId |-> u, originalUrl |-> url,
    isActive |-> TRUE, expiryDate |-> NoTime, clicks |-> 0,
    lastClicked |-> NoTime, recentClicks |-> << >>, dailyStats |-> << >> ]

(***************************************************************************)
(* createShortUrl: one request per slot of CreateReqs.                     *)
(***************************************************************************)
IdleCreate ==
  [ pc |-> "idle", userId |-> "u1", originalUrl |-> "https://a.example",
    customCode |-> NoCode, expiryDate |-> NoTime, shortCode |-> NoCode,
    attempt |-> 0, length |-> DefaultLength, retry |-> FALSE,
    status |-> 0, respId |-> NoId, respCode |-> NoCode,
    \* history, read by no step of the handler: the owner's active record for
    \* this URL when the request arrived, the key patterns its inserts were rejected with, and the active record the
    \* owner held at the last owner+URL rejection
    prior |-> NoId, rejected |-> << >>, holder |-> NoId,
    \* history: the store operations of the request so far: runs of
    \* generateShortCode, findOne calls of the current run, Url.create calls,
    \* and lookups of the owner's existing record
    ops |-> [ runs |-> 0, lookups |-> 0, inserts |-> 0, finds |-> 0 ] ]

\* res.status(s).json(...) without a url in the body
Fail(q, s) ==
  [ q EXCEPT !.pc = "done", !.status = s, !.attempt = 0, !.shortCode = NoCode,
             !.respId = NoId, !.respCode = NoCode ]

\* res.status(s).json({ data: { url: { id, shortCode, ... } } })
Reply(q, s, id, code) ==
  [ q EXCEPT !.pc = "done", !.status = s, !.attempt = 0, !.shortCode = NoCode,
             !.respId = id, !.respCode = code ]

\* the custom code used without the availability check
CheckCustomSkipped(q) ==
  [ q EXCEPT !.pc = "insert", !.shortCode = q.customCode ]

\* lines 61-69: availability check of the custom code
CheckCustom(q) ==
  IF FindByShortCode(q.customCode) # {} THEN Fail(q, 400)
  ELSE [ q EXCEPT !.pc = "insert", !.shortCode = q.customCode ]

\* an attempt loop that runs one pass too many
GenAttemptOneMore(q, bytes) ==
  LET cand == RandomCode(bytes)
  IN  IF FindByShortCode(cand) = {}
      THEN [ q EXCEPT !.pc = "insert", !.shortCode = cand, !.attempt = 0 ]
      ELSE IF q.attempt + 1 <= maxAttempts
      THEN [ q EXCEPT !.pc = "gen", !.attempt = @ + 1 ]
      ELSE [ q EXCEPT !.pc = "fallback", !.attempt = 0 ]

\* generateShortCode, one pass of the attempt loop (lines 254-286): the
\* candidate drawn, its lookup, and the return when it is absent
GenAttempt(q, bytes) ==
  LET cand == RandomCode(bytes)
  IN  IF FindByShortCode(cand) = {}
      THEN [ q EXCEPT !.pc = "insert", !.shortCode = cand, !.attempt = 0 ]
      ELSE IF q.attempt + 1 < maxAttempts
      THEN [ q EXCEPT !.pc = "gen", !.attempt = @ + 1 ]
      ELSE [ q EXCEPT !.pc = "fallback", !.attempt = 0 ]

\* lines 75-85, and the expiryDate rule of createUrlValidation before them:
\* an expiryDate that is not after the current time is refused
ExpiryNotInFuture(e, t) == e # NoTime /\ e <= t

\* lines 9-73 up to and including the first store lookup: the request
\* arrives, the body is validated, then either the custom code is looked up
\* or generateShortCode makes its first attempt
CreateStart(r, u, url, cc, e, bytes) ==
  /\ creq[r].pc \in {"idle", "done"}
  /\ LET held == { d \in store : d.userId = u /\ d.originalUrl = url /\ d.isActive }
         q == [ IdleCreate EXCEPT !.userId = u, !.originalUrl = url,
                                  !.customCode = cc, !.expiryDate = e,
                                  !.prior = IF held = {} THEN NoId
                                            ELSE (CHOOSE d \in held : TRUE).id ]
     IN  creq' = [ creq EXCEPT ![r] =
           IF ExpiryNotInFuture(e, now) THEN Fail(q, 400)
           ELSE IF cc # NoCode /\ ~isValidShortCode(cc) THEN Fail(q, 400)
           ELSE IF cc # NoCode THEN CheckCustom(q)
           ELSE [ GenAttempt(q, bytes) EXCEPT !.ops.runs = 1, !.ops.lookups = 1 ] ]
  /\ UNCHANGED <<store, nextId, now, kreq, hist, acct>>

\* Url.generateShortCode(length) called on its own, up to and including the
\* lookup of its first candidate; pc "insert" then says that the code in
\* shortCode has been returned to the caller
GenerateShortCode(r, length, bytes) ==
  /\ creq[r].pc \in {"idle", "done", "insert"}
  /\ creq' = [ creq EXCEPT ![r] =
       [ GenAttempt([ IdleCreate EXCEPT !.length = length ], bytes)
           EXCEPT !.ops.runs = 1, !.ops.lookups = 1 ] ]
  /\ UNCHANGED <<store, nextId, now, kreq, hist, acct>>

\* a later pass of the attempt loop, or the first pass of the retry
GenNext(r) ==
  /\ creq[r].pc = "gen"
  /\ \E bytes \in RandomBytes(creq[r].length) :
       LET first == creq[r].attempt = 0
       IN  creq' = [ creq EXCEPT ![r] =
             [ GenAttempt(creq[r], bytes)
                 EXCEPT !.ops.runs = IF first THEN @ + 1 ELSE @,
                        !.ops.lookups = IF first THEN 1 ELSE @ + 1 ] ]
  /\ UNCHANGED <<store, nextId, now, kreq, hist, acct>>

\* generateShortCode, the final fallback (lines 288-299); the throw lands in
\* the retry catch (line 178) or in the outer catch (line 222): 500 both ways
GenFallback(r) ==
  /\ creq[r].pc = "fallback"
  /\ \E random \in RandomTails :
       LET cand == FallbackCode(now, random, creq[r].length)
           q == [ creq[r] EXCEPT !.ops.lookups = @ + 1 ]
       IN  creq' = [ creq EXCEPT ![r] =
             IF FindByShortCode(cand) = {}
             THEN [ q EXCEPT !.pc = "insert", !.shortCode = cand ]
             ELSE Fail(q, 500) ]
  /\ UNCHANGED <<store, nextId, now, kreq, hist, acct>>

\* a handler that generates a new code after every shortCode collision
RetryEveryCollision(h) ==
  [ h EXCEPT !.pc = "gen", !.retry = TRUE, !.attempt = 0 ]

\* lines 140-184: the first shortCode collision sends the request to
\* generate a new code and insert again; a collision of that second insert
\* is caught by the catch of the retry and answered 500
AfterShortCodeCollision(h) ==
  IF h.retry THEN Fail(h, 500)
  ELSE [ h EXCEPT !.pc = "gen", !.retry = TRUE, !.attempt = 0 ]

\* a create that leaves its document behind when an index rejects it
RejectedCreateKept(docs, doc) == docs \cup {doc}

\* the collection after Url.create(urlData) threw E11000: an insert that a
\* unique index rejects writes nothing
RejectedCreate(docs, doc) == docs

\* The expiry check of lines 75-85, made once the short code is known, then
\* Url.create(urlData) and what the handler does with its outcome (lines
\* 98-133 and 135-184); the retry of lines 140-150 inserts the same urlData
\* again without a second expiry check.  On success the QR code is saved on the new document
\* (url.save() writes the qrCode path only) and the 201 answer is built from
\* the in-memory document.  When both unique indexes are violated the server
\* reports whichever it checked first: either key pattern may arrive.
Insert(r) ==
  /\ creq[r].pc = "insert"
  /\ LET q == creq[r]
         doc == [ NewDoc(nextId, q.shortCode, q.userId, q.originalUrl)
                    EXCEPT !.expiryDate = q.expiryDate ]
     IN  IF ~q.retry /\ ExpiryNotInFuture(q.expiryDate, now)
         THEN /\ creq' = [ creq EXCEPT ![r] = Fail(q, 400) ]
              /\ UNCHANGED <<store, nextId>>
         ELSE LET p == [ q EXCEPT !.ops.inserts = @ + 1 ] IN
         \/ /\ ~ViolatesShortCodeIndex(doc, store)
            /\ ~ViolatesOwnerUrlIndex(doc, store)
            /\ nextId <= MaxRecords
            /\ store' = store \cup {doc}
            /\ nextId' = nextId + 1
            /\ creq' = [ creq EXCEPT ![r] =
                 Reply(p, 201, doc.id, doc.shortCode) ]
         \/ \* E11000 with keyPattern { shortCode: 1 }
            /\ ViolatesShortCodeIndex(doc, store)
            /\ creq' = [ creq EXCEPT ![r] =
                 AfterShortCodeCollision(
                   [ p EXCEPT !.rejected = Append(@, "shortCode") ]) ]
            /\ store' = RejectedCreate(store, doc)
            /\ nextId' = nextId
         \/ \* E11000 with keyPattern { userId: 1, originalUrl: 1, isActive: 1 }
            /\ ViolatesOwnerUrlIndex(doc, store)
            /\ creq' = [ creq EXCEPT ![r] =
                 LET h == [ p EXCEPT !.rejected = Append(@, "ownerUrl"),
                                     !.holder = (CHOOSE d \in store :
                                                   /\ d.userId = q.userId
                                                   /\ d.originalUrl = q.originalUrl
                                                   /\ d.isActive).id ]
                 IN  IF q.retry THEN Fail(h, 500)
                     ELSE [ h EXCEPT !.pc = "lookup" ] ]
            /\ store' = RejectedCreate(store, doc)
            /\ nextId' = nextId
  /\ UNCHANGED <<now, kreq, hist, acct>>

\* lines 186-218: look the owner's active record up; answer 200 with it, or
\* re-throw the duplicate-key error (500) when there is none
Lookup(r) ==
  /\ creq[r].pc = "lookup"
  /\ LET found == FindActiveByOwnerUrl(creq[r].userId, creq[r].originalUrl)
     IN  IF found = {}
         THEN creq' = [ creq EXCEPT ![r] =
                Fail([ @ EXCEPT !.ops.finds = @ + 1 ], 500) ]
         ELSE \E e \in found :
                creq' = [ creq EXCEPT ![r] =
                  Reply([ @ EXCEPT !.ops.finds = @ + 1 ], 200, e.id, e.shortCode) ]
  /\ UNCHANGED <<store, nextId, now, kreq, hist, acct>>

(***************************************************************************)
(* updateUrl and deleteUrl.  The findOne({ _id, userId }) of either handler *)
(* only gates on existence and ownership, which no other request changes   *)
(* except a delete, after which findByIdAndUpdate / findByIdAndDelete      *)
(* leave the store as it is; so each handler is one step on the store.     *)
(***************************************************************************)
Undefined == "undefined"

\* the fields of the request body the model follows: originalUrl, isActive
UpdateBodies ==
  { b \in [ originalUrl : Urls \cup {Undefined},
            isActive : {"true", "false", Undefined} ] :
      b.originalUrl # Undefined \/ b.isActive # Undefined }

\* an update that also resets the click counter
ApplyUpdateDataResetting(d, body) ==
  [ d EXCEPT !.originalUrl = IF body.originalUrl # Undefined THEN body.originalUrl ELSE @,
             !.isActive = IF body.isActive # Undefined THEN (body.isActive = "true") ELSE @,
             !.clicks = 0 ]

\* an update that issues a new short code when the destination changes
ApplyUpdateDataRecoding(d, body) ==
  [ d EXCEPT !.originalUrl = IF body.originalUrl # Undefined THEN body.originalUrl ELSE @,
             !.isActive = IF body.isActive # Undefined THEN (body.isActive = "true") ELSE @,
             !.shortCode = IF body.originalUrl # Undefined
                           THEN RandomCode([i \in 1..DefaultLength |-> 65]) ELSE @ ]

\* lines 512-523: the updateData applied to the document
ApplyUpdateData(d, body) ==
  [ d EXCEPT !.originalUrl = IF body.originalUrl # Undefined
                             THEN body.originalUrl ELSE @,
             !.isActive = IF body.isActive # Undefined
                          THEN (body.isActive = "true") ELSE @ ]

\* history only: the answers of finished createShortUrl requests are kept for
\* inspection until the collection is next edited (a slot is free again either
\* way), and a request in flight stops counting record `id` as the owner's
\* untouched active record
Forget(id) ==
  [ r \in CreateReqs |-> IF creq[r].pc = "done" THEN IdleCreate
                         ELSE IF creq[r].prior = id THEN [ creq[r] EXCEPT !.prior = NoId ]
                         ELSE creq[r] ]

\* lines 462-529
UpdateUrl(u, id, body) ==
  /\ \E d \in store :
       /\ d.id = id
       /\ d.userId = u
       /\ LET nd == ApplyUpdateData(d, body)
          IN  IF ViolatesOwnerUrlIndex(nd, store \ {d}) \/ nd = d
              THEN UNCHANGED <<store, creq>>
              ELSE /\ store' = (store \ {d}) \cup {nd}
                   /\ creq' = Forget(id)
  /\ UNCHANGED <<nextId, now, kreq, hist, acct>>

\* lines 580-594
DeleteUrl(u, id) ==
  /\ \E d \in store :
       /\ d.id = id
       /\ d.userId = u
       /\ store' = store \ {d}
       /\ creq' = Forget(id)
  /\ UNCHANGED <<nextId, now, kreq, hist, acct>>

(***************************************************************************)
(* redirectToOriginal and Url.methods.incrementClicks: one request per     *)
(* slot of ClickReqs.                                                      *)
(***************************************************************************)
\* the analytics object of a response that carries none
NoReport == [ totalClicks |-> -1, weeklyClicks |-> -1, topReferrers |-> << >> ]

IdleClick ==
  [ pc |-> "idle", shortCode |-> NoCode, urlId |-> NoId, originalUrl |-> "",
    seen |-> 0, idx |-> 0, clickNow |-> NoTime, remaining |-> 0,
    status |-> 0, recorded |-> FALSE, referer |-> NoReferer,
    op |-> "none", report |-> NoReport,
    \* req.user.id of the requests that pass the auth middleware
    caller |-> NoUser ]

\* the Url.methods.isExpired test (part_001 lines 173-176), which
\* redirectToOriginal repeats on the lean copy (lines 41-46):
\* expiryDate && expiryDate < new Date()
isExpired(d, t) == d.expiryDate # NoTime /\ d.expiryDate < t


\* a handler that answers 500 when the click was not recorded
RedirectStatusStrict(recorded) == IF recorded THEN 302 ELSE 500

\* redirectController.js lines 63-82: the catch around the click recording
\* only logs, and res.redirect(302, url.originalUrl) follows in every case
RedirectStatus(recorded) == 302

\* the response of redirectToOriginal once the recording block is over
Finish(q, recorded) ==
  [ q EXCEPT !.pc = "done", !.status = RedirectStatus(recorded),
             !.seen = 0, !.recorded = recorded, !.referer = NoReferer ]

\* short codes a visitor may ask for: aaaaaa, bbbbbb
RequestedCodes == { RandomCode(bytes) : bytes \in RandomBytes(DefaultLength) }

\* this.dailyStats.findIndex(stat => stat.date.getTime() === today.getTime()),
\* as a 1-based position; 0 when findIndex returns -1
TodayStatsIndex(dailyStats, today) ==
  LET hits == { i \in 1..Len(dailyStats) : dailyStats[i].date = today }
  IN  IF hits = {} THEN 0
      ELSE CHOOSE i \in hits : \A j \in hits : i <= j

\* the counter written back from the caller's own copy (read-modify-write)
IncClicksFromCopy(stored, seen) == seen + 1

\* the counter raised by two
IncClicksTwice(stored, seen) == stored + 2

\* $inc: { clicks: 1 }: the store adds 1 to the stored counter, whatever
\* this.clicks the caller saw in its own copy
IncClicks(stored, seen) == stored + 1

\* the entry added as to a set: a timestamp already at the end is not repeated
AddRecentClickToSet(recentClicks, t, referer) ==
  IF recentClicks # << >> /\ recentClicks[Len(recentClicks)].timestamp = t
  THEN recentClicks
  ELSE SliceLast(Append(recentClicks, [ timestamp |-> t, referer |-> referer ]),
                 RecentCap)

\* $push: { recentClicks: { $each: [{ timestamp: now, ... }], $slice: -1000 } }
PushRecentClick(recentClicks, t, referer) ==
  SliceLast(Append(recentClicks, [ timestamp |-> t, referer |-> referer ]),
            RecentCap)

\* today's counter set to 1 rather than incremented
SetDailyStats(dailyStats, idx, today) ==
  IF idx >= 1
  THEN IF idx <= Len(dailyStats)
       THEN [ dailyStats EXCEPT ![idx].clicks = 1 ]
       ELSE Append(dailyStats, [ date |-> NoTime, clicks |-> 1 ])
  ELSE SliceLast(Append(dailyStats, [ date |-> today, clicks |-> 1 ]), DailyCap)

\* the dailyStats part of updateData, applied by the store to the document as
\* it is at the time of the update: $inc of dailyStats.<idx>.clicks when the
\* caller found today's entry in its own copy, else $push with $slice: -365
UpdateDailyStats(dailyStats, idx, today) ==
  IF idx >= 1
  THEN IF idx <= Len(dailyStats)
       THEN [ dailyStats EXCEPT ![idx].clicks = @ + 1 ]
       ELSE Append(dailyStats, [ date |-> NoTime, clicks |-> 1 ])
  ELSE SliceLast(Append(dailyStats, [ date |-> today, clicks |-> 1 ]), DailyCap)

\* findByIdAndUpdate(this._id, updateData) of incrementClicks (lines 186-222)
ApplyClick(d, t, idx, seen, referer) ==
  [ d EXCEPT !.clicks = IncClicks(@, seen),
             !.lastClicked = t,
             !.recentClicks = PushRecentClick(@, t, referer),
             !.dailyStats = UpdateDailyStats(@, idx, DayStart(t)) ]

\* lines 6-53: Url.findOne({ shortCode, isActive: true }).lean(), 404 when
\* nothing is found, 410 when the copy has expired, else clickData is built
\* from the request headers
RedirectLookup(k, code, referer) ==
  /\ kreq[k].pc \in {"idle", "done"}
  /\ LET found == { d \in FindByShortCode(code) : d.isActive }
         q == [ IdleClick EXCEPT !.op = "redirect", !.shortCode = code ]
     IN  IF found = {}
         THEN kreq' = [ kreq EXCEPT ![k] = [ q EXCEPT !.pc = "done", !.status = 404 ] ]
         ELSE \E d \in found :
                kreq' = [ kreq EXCEPT ![k] =
                  IF isExpired(d, now)
                  THEN [ q EXCEPT !.pc = "done", !.status = 410 ]
                  ELSE [ q EXCEPT !.pc = "refetch", !.urlId = d.id,
                                  !.originalUrl = d.originalUrl,
                                  !.referer = referer ] ]
  /\ UNCHANGED <<store, nextId, now, creq, hist, acct>>

\* incrementClicks lines 183-215, run on the copy a findById returned: read
\* the clock and look for today's entry in that copy
ReadCopy(q, d) ==
  [ q EXCEPT !.clickNow = now, !.seen = d.clicks,
             !.idx = TodayStatsIndex(d.dailyStats, DayStart(now)) ]

\* lines 59-70 and, inside incrementClicks, lines 183-215: re-fetch the
\* document and prepare the update; when the document is gone or inactive,
\* or findById throws a store error, nothing is recorded
RedirectRefetch(k) ==
  /\ kreq[k].pc = "refetch"
  /\ LET found == { d \in FindById(kreq[k].urlId) : d.isActive }
     IN  \/ \E d \in found :
              kreq' = [ kreq EXCEPT ![k] = [ ReadCopy(@, d) EXCEPT !.pc = "update" ] ]
         \/ kreq' = [ kreq EXCEPT ![k] = Finish(@, FALSE) ]
  /\ UNCHANGED <<store, nextId, now, creq, hist, acct>>

\* an account nothing has been done for
NoActivity == [ totalClicks |-> 0, pending |-> 0, ran |-> 0 ]

\* a handler that queues the update of the owner's totalClicks twice
ScheduleTotalClicksTwice(u) == [ acct EXCEPT ![u].pending = @ + 2 ]

\* incrementClicks line 226: setImmediate queues the update of the owner's
\* totalClicks once the update of the record has returned
ScheduleTotalClicks(u) == [ acct EXCEPT ![u].pending = @ + 1 ]

\* a callback that queues itself again when its update fails
RetryTotalClicksTask(a, ok) ==
  IF ok THEN [ a EXCEPT !.pending = @ - 1, !.ran = @ + 1, !.totalClicks = @ + 1 ]
  ELSE [ a EXCEPT !.ran = @ + 1 ]

\* incrementClicks lines 226-235: the queued callback runs once; its
\* $inc: { totalClicks: 1 } is applied, or it fails and the catch logs it
RunTotalClicksTask(a, ok) ==
  [ a EXCEPT !.pending = @ - 1, !.ran = @ + 1,
             !.totalClicks = IF ok THEN @ + 1 ELSE @ ]

\* one queued callback of account u runs, outside every request
TotalClicksUpdate(u, ok) ==
  /\ acct[u].pending > 0
  /\ acct' = [ acct EXCEPT ![u] = RunTotalClicksTask(@, ok) ]
  /\ UNCHANGED <<store, nextId, now, creq, kreq, hist>>

\* one applied click, as the history keeps it
RecordHistory(h, d, t, idx) ==
  [ log |-> Append(h.log, t),
    dailyEvicted |-> h.dailyEvicted \/ (idx = 0 /\ Len(d.dailyStats) >= DailyCap) ]

\* lines 217-222 and 62-82: the atomic update.  When the document is gone
\* the null result makes incrementClicks throw, and a store error makes the
\* update itself throw with nothing applied; the handler swallows both, and
\* the 302 follows in every case
ClickUpdate(k) ==
  /\ kreq[k].pc = "update"
  /\ LET q == kreq[k]
     IN  \/ \E d \in FindById(q.urlId) :
              /\ Len(hist[d.id].log) < MaxClicks
              /\ store' = (store \ {d}) \cup { ApplyClick(d, q.clickNow, q.idx, q.seen, q.referer) }
              /\ hist' = [ hist EXCEPT ![d.id] = RecordHistory(@, d, q.clickNow, q.idx) ]
              /\ acct' = ScheduleTotalClicks(d.userId)
              /\ kreq' = [ kreq EXCEPT ![k] = Finish(q, TRUE) ]
         \/ /\ UNCHANGED <<store, hist, acct>>
            /\ kreq' = [ kreq EXCEPT ![k] = Finish(q, FALSE) ]
  /\ UNCHANGED <<nextId, now, creq>>

\* redirectController.js lines 236-243: bulkUpdateClicks answers success once
\* every group has settled, whatever happened to its clicks
BulkDone(q) ==
  [ q EXCEPT !.pc = "done", !.status = 200, !.seen = 0, !.remaining = 0 ]

\* redirectController.js lines 192-222: bulkUpdateClicks for the n clicks the
\* body holds for one urlId: findById, then the first incrementClicks reads
\* the clock and the copy; a missing or inactive document, or a store error,
\* ends the group with nothing recorded
BulkStart(k, u, id, n) ==
  /\ kreq[k].pc \in {"idle", "done"}
  /\ LET q == [ IdleClick EXCEPT !.op = "bulk", !.caller = u, !.urlId = id,
                                 !.remaining = n ]
         found == { d \in FindById(id) : d.isActive }
     IN  \/ \E d \in found :
              kreq' = [ kreq EXCEPT ![k] = [ ReadCopy(q, d) EXCEPT !.pc = "bulk" ] ]
         \/ kreq' = [ kreq EXCEPT ![k] = BulkDone(q) ]
  /\ UNCHANGED <<store, nextId, now, creq, hist, acct>>

\* redirectController.js lines 224-229 with incrementClicks lines 183-240:
\* the update of one click of the group; Object.assign(this, result) makes
\* the result the copy the next click of the group reads; a null result or
\* a store error throws out of the loop into the catch of the group
BulkUpdate(k) ==
  /\ kreq[k].pc = "bulk"
  /\ LET q == kreq[k]
     IN  \/ \E d \in FindById(q.urlId) :
              LET result == ApplyClick(d, q.clickNow, q.idx, q.seen, q.referer)
              IN  /\ Len(hist[d.id].log) < MaxClicks
                  /\ store' = (store \ {d}) \cup { result }
                  /\ hist' = [ hist EXCEPT ![d.id] = RecordHistory(@, d, q.clickNow, q.idx) ]
                  /\ acct' = ScheduleTotalClicks(d.userId)
                  /\ kreq' = [ kreq EXCEPT ![k] =
                       IF q.remaining = 1 THEN BulkDone(q)
                       ELSE [ ReadCopy(q, result) EXCEPT !.remaining = @ - 1 ] ]
         \/ /\ UNCHANGED <<store, hist, acct>>
            /\ kreq' = [ kreq EXCEPT ![k] = BulkDone(q) ]
  /\ UNCHANGED <<nextId, now, creq>>

\* new URL(referer) succeeds: the referer is an absolute URL
IsUrl(referer) ==
  referer \in { "https://news.example/post", "https://news.example/feed" }

\* new URL(referer).hostname of a referer that parses
Hostname(referer) ==
  CASE referer = "https://news.example/post" -> "news.example"
    [] referer = "https://news.example/feed" -> "news.example"

\* lines 438-445: the recentClicks entries that carry a referer, reduced to
\* a count per hostname
TopReferrers(recentClicks) ==
  LET with == { i \in 1..Len(recentClicks) : recentClicks[i].referer # NoReferer }
      hosts == { Hostname(recentClicks[i].referer) : i \in with }
  IN  [ h \in hosts |->
          Cardinality({ i \in with : Hostname(recentClicks[i].referer) = h }) ]

\* line 441: new URL(click.referer) throws a TypeError on one of the
\* entries the filter of line 439 lets through
TopReferrersThrows(recentClicks) ==
  \E i \in 1..Len(recentClicks) :
     /\ recentClicks[i].referer # NoReferer
     /\ ~IsUrl(recentClicks[i].referer)

\* lines 398-399: sevenDaysAgo = new Date(); setDate(getDate() - 7), the
\* time of day of the request kept
SevenDaysAgo(t) == t - WeekDays * TicksPerDay

RECURSIVE ReduceClicks(_)
\* .reduce((sum, stat) => sum + stat.clicks, 0)
ReduceClicks(stats) ==
  IF stats = << >> THEN 0 ELSE stats[1].clicks + ReduceClicks(Tail(stats))

\* lines 401-403: the dailyStats entries dated sevenDaysAgo or later, summed
WeeklyClicks(dailyStats, t) ==
  ReduceClicks(SelectSeq(dailyStats,
     LAMBDA stat : stat.date # NoTime /\ stat.date >= SevenDaysAgo(t)))

\* a handler that saves the document with a view counted on it
SavedWithView(d) == [ d EXCEPT !.clicks = @ + 1 ]

\* the document after getUrlAnalytics: the handler works on the copy that
\* findOne returned and never calls save() or an update
SavedByAnalytics(d) == d

\* urlController.js lines 375-457: getUrlAnalytics reads the owner's record
\* and answers 404 when there is none, 500 when building the analytics
\* object throws, else 200 with the analytics computed from the copy
GetUrlAnalytics(k, u, id) ==
  /\ kreq[k].pc \in {"idle", "done"}
  /\ LET found == { d \in FindById(id) : d.userId = u }
         q == [ IdleClick EXCEPT !.op = "analytics", !.caller = u,
                                 !.pc = "done", !.urlId = id ]
     IN  IF found = {}
         THEN /\ kreq' = [ kreq EXCEPT ![k] = [ q EXCEPT !.status = 404 ] ]
              /\ store' = store
         ELSE \E d \in found :
                /\ kreq' = [ kreq EXCEPT ![k] =
                     IF TopReferrersThrows(d.recentClicks)
                     THEN [ q EXCEPT !.status = 500 ]
                     ELSE [ q EXCEPT !.status = 200, !.seen = d.clicks,
                              !.report = [ totalClicks |-> d.clicks,
                                           weeklyClicks |-> WeeklyClicks(d.dailyStats, now),
                                           topReferrers |-> TopReferrers(d.recentClicks) ] ] ]
                /\ store' = (store \ {d}) \cup { SavedByAnalytics(d) }
  /\ UNCHANGED <<nextId, now, creq, hist, acct>>

\* the wall clock advances
Tick ==
  /\ now < MaxTime
  /\ now' = now + 1
  /\ UNCHANGED <<store, nextId, creq, kreq, hist, acct>>

(***************************************************************************)
(* Specifications.                                                         *)
(***************************************************************************)
Ids == 1..MaxRecords

NoHistory == [ log |-> << >>, dailyEvicted |-> FALSE ]

\* the service starts on an empty collection
Init ==
  /\ store = {}
  /\ nextId = 1
  /\ now = 0
  /\ creq = [ r \in CreateReqs |-> IdleCreate ]
  /\ kreq = [ k \in ClickReqs |-> IdleClick ]
  /\ hist = [ i \in Ids |-> NoHistory ]
  /\ acct = [ u \in Users |-> NoActivity ]

\* createShortUrl requests whose customCode, when given, is one of `codes`,
\* and whose expiryDate is one of `expiries`
CreateOver(codes, expiries) ==
  \/ \E r \in CreateReqs, u \in Creators, url \in Urls,
        cc \in codes \cup {NoCode}, e \in expiries,
        bytes \in RandomBytes(DefaultLength) :
       CreateStart(r, u, url, cc, e, bytes)
  \/ \E r \in CreateReqs : GenNext(r)
  \/ \E r \in CreateReqs : GenFallback(r)
  \/ \E r \in CreateReqs : Insert(r)
  \/ \E r \in CreateReqs : Lookup(r)

CreateNext == CreateOver(CustomCodes, {NoTime})

OwnerNext ==
  \/ \E u \in Users, id \in Ids, body \in UpdateBodies : UpdateUrl(u, id, body)
  \/ \E u \in Users, id \in Ids : DeleteUrl(u, id)

\* redirectToOriginal requests whose Referer header is one of `referers`
RedirectOver(referers) ==
  \/ \E k \in ClickReqs, code \in RequestedCodes, referer \in referers :
       RedirectLookup(k, code, referer)
  \/ \E k \in ClickReqs : RedirectRefetch(k)
  \/ \E k \in ClickReqs : ClickUpdate(k)

RedirectNext == RedirectOver({NoReferer})

ClickNext == RedirectNext \/ Tick

\* creation, update and deletion of records
Next == CreateNext \/ OwnerNext

Spec == Init /\ [][Next]_vars

\* concurrent createShortUrl requests alone
SpecCreate == Init /\ [][CreateNext]_vars

\* every await of a request in flight is resumed in the end: the steps of
\* each createShortUrl request are taken under weak fairness
CreateFairness ==
  \A r \in CreateReqs :
    WF_vars(GenNext(r) \/ GenFallback(r) \/ Insert(r) \/ Lookup(r))

SpecCreateFair == SpecCreate /\ CreateFairness

\* concurrent createShortUrl requests, malformed custom codes among them
SpecFormat == Init /\ [][CreateOver(CustomCodes \cup MalformedCodes, {NoTime})]_vars

\* concurrent createShortUrl requests with every kind of refusal among
\* them: malformed or taken custom codes, and an expiryDate that is not
\* after the time of the request
SpecReject ==
  Init /\ [][CreateOver(CustomCodes \cup MalformedCodes, {NoTime, 0})]_vars

\* the collection after one createShortUrl answered 201 (no custom code)
InitClick ==
  /\ store = { NewDoc(1, RandomCode([i \in 1..DefaultLength |-> 0]), "u1", "https://a.example") }
  /\ nextId = 2
  /\ now = 0
  /\ creq = [ r \in CreateReqs |-> IdleCreate ]
  /\ kreq = [ k \in ClickReqs |-> IdleClick ]
  /\ hist = [ i \in Ids |-> NoHistory ]
  /\ acct = [ u \in Users |-> NoActivity ]

\* the owner switches the record off and on, or deletes it
SwitchNext ==
  \/ \E u \in Users, id \in Ids, body \in UpdateBodies :
       /\ body.originalUrl = Undefined
       /\ UpdateUrl(u, id, body)
  \/ \E u \in Users, id \in Ids : DeleteUrl(u, id)

\* visitors following the short link while the owner edits the record
NextClick == ClickNext \/ SwitchNext

SpecClick == InitClick /\ [][NextClick]_vars

ReportNext ==
  \/ \E k \in ClickReqs, u \in Users, id \in Ids, n \in 1..MaxBulk :
       BulkStart(k, u, id, n)
  \/ \E k \in ClickReqs : BulkUpdate(k)
  \/ \E k \in ClickReqs, u \in Users, id \in Ids : GetUrlAnalytics(k, u, id)

AnalyticsNext ==
  \E k \in ClickReqs, u \in Users, id \in Ids : GetUrlAnalytics(k, u, id)

\* visitors who send Referer headers, and the owner reading the analytics
SpecReferer == InitClick /\ [][RedirectOver(Referers) \/ AnalyticsNext]_vars

\* visitors over several days, and the owner reading the analytics
SpecWeekly == InitClick /\ [][ClickNext \/ AnalyticsNext]_vars

\* the collection after one createShortUrl with or without an expiryDate
InitExpiry ==
  /\ store \in { { [ NewDoc(1, RandomCode([i \in 1..DefaultLength |-> 0]),
                            "u1", "https://a.example") EXCEPT !.expiryDate = e ] } :
                  e \in ExpiryDates }
  /\ nextId = 2
  /\ now = 0
  /\ creq = [ r \in CreateReqs |-> IdleCreate ]
  /\ kreq = [ k \in ClickReqs |-> IdleClick ]
  /\ hist = [ i \in Ids |-> NoHistory ]
  /\ acct = [ u \in Users |-> NoActivity ]

\* visitors following a link that may expire while the owner switches it
SpecExpiry == InitExpiry /\ [][NextClick]_vars

\* createShortUrl requests, some with an expiryDate, that arrive over several
\* days for an owner who holds a link that may expire
SpecLapse == InitExpiry /\ [][CreateOver({}, ExpiryDates) \/ Tick]_vars

AccountNext == \E u \in Users, ok \in BOOLEAN : TotalClicksUpdate(u, ok)

\* redirects and the callbacks that keep the owner's totalClicks
SpecAccount == InitClick /\ [][RedirectNext \/ AccountNext]_vars

\* redirects with a User collection that never fails: every queued
\* callback is run by the event loop in the end, and its update is applied
SpecAccountFair ==
  /\ InitClick
  /\ [][RedirectNext \/ \E u \in Users : TotalClicksUpdate(u, TRUE)]_vars
  /\ \A u \in Users : WF_vars(TotalClicksUpdate(u, TRUE))

NextTraffic == RedirectNext \/ ReportNext \/ OwnerNext

\* redirects, bulk click reports and analytics reads on a created record
\* that its owner edits and deletes, all within one tick of the clock
SpecTraffic == InitClick /\ [][NextTraffic]_vars

\* lengths generateShortCode is asked for
GenLengths == 4..10

\* codes a collection may already hold when a code of this length is asked
\* for: the two candidates the random bytes can give, and the code the
\* fallback gives at time 0
SeedCodes(length) ==
  << RandomCode([i \in 1..length |-> 0]), RandomCode([i \in 1..length |-> 65]),
     FallbackCode(0, CHOOSE random \in RandomTails : TRUE, length) >>

\* the owners and URLs of the records that hold those codes
SeedOwners == << <<"u1", "https://a.example">>, <<"u1", "https://b.example">>,
                 <<"u2", "https://a.example">> >>

\* a collection that holds the first n of those codes
InitGen ==
  /\ \E length \in GenLengths : \E n \in 0..3 :
       /\ store = { NewDoc(i, SeedCodes(length)[i], SeedOwners[i][1], SeedOwners[i][2]) :
                      i \in 1..n }
       /\ nextId = n + 1
  /\ now = 0
  /\ creq = [ r \in CreateReqs |-> IdleCreate ]
  /\ kreq = [ k \in ClickReqs |-> IdleClick ]
  /\ hist = [ i \in Ids |-> NoHistory ]
  /\ acct = [ u \in Users |-> NoActivity ]

NextGen ==
  \/ \E r \in CreateReqs, length \in GenLengths :
       \E bytes \in RandomBytes(length) : GenerateShortCode(r, length, bytes)
  \/ \E r \in CreateReqs : GenNext(r)
  \/ \E r \in CreateReqs : GenFallback(r)
  \/ Tick

\* calls of generateShortCode against a collection that holds some codes
SpecGen == InitGen /\ [][NextGen]_vars

(***************************************************************************)
(* Claims.                                                                 *)
(***************************************************************************)

\* C1: in every reachable state no two stored records have the same
\* shortCode, whatever the interleaving of create requests (generated or
\* custom codes, retry included) with update and delete requests; and two
\* finished creates that each answered 201 carry different shortCodes.
C1_ShortCodeUnique ==
  /\ \A d1 \in store : \A d2 \in store :
       d1.shortCode = d2.shortCode => d1 = d2
  /\ \A r1 \in CreateReqs : \A r2 \in CreateReqs :
       ( /\ r1 # r2
         /\ creq[r1].pc = "done" /\ creq[r1].status = 201
         /\ creq[r2].pc = "done" /\ creq[r2].status = 201 )
       => creq[r1].respCode # creq[r2].respCode

\* two records are stored, one of them by a request whose first insert
\* collided on shortCode and whose retry succeeded
C1_Witness ==
  /\ Cardinality(store) = 2
  /\ \E r \in CreateReqs :
       /\ creq[r].pc = "done"
       /\ creq[r].status = 201
       /\ creq[r].rejected = << "shortCode" >>
       /\ \E d \in store : d.id = creq[r].respId

\* C2: in every reachable state there is at most one record with
\* isActive = true for any (ownerId, originalUrl) pair, under any interleaving
\* of create and update requests; two creates by the same owner for the same
\* originalUrl that both succeed are answered with one and the same record.
C2_OneActivePerOwnerUrl ==
  /\ \A d1 \in store : \A d2 \in store :
       ( /\ d1.userId = d2.userId
         /\ d1.originalUrl = d2.originalUrl
         /\ d1.isActive /\ d2.isActive )
       => d1 = d2
  /\ \A r1 \in CreateReqs : \A r2 \in CreateReqs :
       ( /\ creq[r1].pc = "done" /\ creq[r1].status \in {200, 201}
         /\ creq[r2].pc = "done" /\ creq[r2].status \in {200, 201}
         /\ creq[r1].userId = creq[r2].userId
         /\ creq[r1].originalUrl = creq[r2].originalUrl )
       => creq[r1].respId = creq[r2].respId

\* two simultaneous creates by one owner for one URL have both finished: one
\* inserted the record, the other ran into the index and was handed it
C2_Witness ==
  \E r1 \in CreateReqs : \E r2 \in CreateReqs :
    /\ creq[r1].pc = "done" /\ creq[r1].status = 201
    /\ creq[r2].pc = "done" /\ creq[r2].status = 200
    /\ creq[r2].prior = NoId
    /\ creq[r1].originalUrl = creq[r2].originalUrl
    /\ Cardinality(FindActiveByOwnerUrl(creq[r1].userId, creq[r1].originalUrl)) = 1

\* the key patterns the inserts of request r were rejected with
RejectedWith(r) == { creq[r].rejected[i] : i \in 1..Len(creq[r].rejected) }

\* the shortCode of the stored record with this id
CodeOf(id) == (CHOOSE d \in store : d.id = id).shortCode

\* C3: whenever an insert attempted by a create request, the first or the
\* retry, is rejected because the owner already holds an active record for
\* the same originalUrl, the caller receives that record (its id and
\* shortCode) with a success outcome, never an error.
C3_OwnerUrlRejectionReturnsExisting ==
  \A r \in CreateReqs :
    ( creq[r].pc = "done" /\ "ownerUrl" \in RejectedWith(r) )
    => /\ creq[r].status = 200
       /\ creq[r].respId = creq[r].holder

\* C4 as claimed: a create request that repeats the owner and originalUrl of a
\* record that is still active (with or without a well-formed customCode)
\* ends with a success outcome carrying the id and shortCode of that record.
C4_RepeatReturnsFirstRecord ==
  \A r \in CreateReqs :
    ( /\ creq[r].pc = "done"
      /\ creq[r].prior # NoId
      /\ (creq[r].customCode = NoCode \/ isValidShortCode(creq[r].customCode)) )
    => /\ creq[r].status \in {200, 201}
       /\ creq[r].respId = creq[r].prior
       /\ creq[r].respCode = CodeOf(creq[r].prior)

\* C4 as amended: while the owner's first record for the URL stays active, a
\* repeated create for the same owner and URL never creates a second record;
\* when its first insert is rejected by the owner+URL index it answers 200
\* with the id and shortCode of the first record, and that is the only way
\* it answers with a record; a repeat whose customCode is the stored code of
\* the first record (the identical custom-code request) is answered 400.
C4_RepeatIsIdempotentUnlessCodeTaken ==
  \A r \in CreateReqs :
    ( creq[r].pc = "done" /\ creq[r].prior # NoId )
    => /\ creq[r].status # 201
       /\ creq[r].rejected = << "ownerUrl" >>
            => /\ creq[r].status = 200
               /\ creq[r].respId = creq[r].prior
               /\ creq[r].respCode = CodeOf(creq[r].prior)
       /\ creq[r].status = 200 => creq[r].rejected = << "ownerUrl" >>
       /\ creq[r].customCode = CodeOf(creq[r].prior)
            => /\ creq[r].status = 400
               /\ creq[r].respId = NoId

\* one repeat without a custom code was handed the first record, another
\* that repeated the first record's own code as customCode was refused
C4_Witness ==
  \E r1 \in CreateReqs : \E r2 \in CreateReqs :
    /\ creq[r1].pc = "done" /\ creq[r1].prior # NoId
    /\ creq[r1].customCode = NoCode
    /\ creq[r1].status = 200 /\ creq[r1].respId = creq[r1].prior
    /\ creq[r2].pc = "done" /\ creq[r2].prior = creq[r1].prior
    /\ creq[r2].customCode = CodeOf(creq[r2].prior)
    /\ creq[r2].status = 400

\* the sum of the clicks fields of a dailyStats array
RECURSIVE SumClicks(_)
SumClicks(dailyStats) ==
  IF dailyStats = << >> THEN 0
  ELSE dailyStats[1].clicks + SumClicks(Tail(dailyStats))

\* the calendar days of the clicks applied to a record
DaysOf(log) == { DayStart(log[i]) : i \in 1..Len(log) }

\* the number of applied clicks that fell on a day
ClicksOn(log, day) == Cardinality({ i \in 1..Len(log) : DayStart(log[i]) = day })

\* C5: every incrementClicks update applied to a record, whatever the
\* interleaving of the callers' reads and updates, raises its clicks counter
\* by exactly one: the counter equals the number of click updates applied
\* since the record was created with clicks = 0.
C5_NoLostClick ==
  \A d \in store : d.clicks = Len(hist[d.id].log)

\* two clicks were applied in the order opposite to the one in which the
\* callers read the record and the clock: their read and update steps overlap
C5_Witness ==
  \E d \in store :
    /\ d.clicks = 2
    /\ Len(d.recentClicks) = 2
    /\ d.recentClicks[1].timestamp > d.recentClicks[2].timestamp

\* C6: in every reachable state the length of recentClicks equals the smaller
\* of the clicks counter and the cap of the $slice: every applied click is in
\* both the counter and the list, never in only one of them.
C6_RecentClicksLength ==
  \A d \in store : Len(d.recentClicks) = Min(d.clicks, RecentCap)

\* more clicks than the cap have been applied to a record
C6_Witness ==
  \E d \in store : d.clicks > RecentCap /\ Len(d.recentClicks) = RecentCap

\* C7: as long as no dailyStats entry of a record has been evicted, its
\* clicks counter equals the sum of the clicks of its dailyStats entries,
\* under any interleaving of concurrent incrementClicks calls.
C7_ClicksEqualDailySum ==
  \A d \in store :
    ~hist[d.id].dailyEvicted => d.clicks = SumClicks(d.dailyStats)

\* three clicks over two dailyStats entries, nothing evicted yet
C7_Witness ==
  \E d \in store :
    /\ ~hist[d.id].dailyEvicted
    /\ d.clicks = 3
    /\ Len(d.dailyStats) = 2
    /\ \E i \in 1..2 : d.dailyStats[i].clicks = 2

\* C8: in every reachable state no two entries of a record's dailyStats have
\* the same date, under any interleaving of concurrent incrementClicks calls.
C8_DailyDatesUnique ==
  \A d \in store :
    \A i \in 1..Len(d.dailyStats) : \A j \in 1..Len(d.dailyStats) :
      d.dailyStats[i].date = d.dailyStats[j].date => i = j

\* C9: when the clicks applied to a record fell on D distinct calendar days,
\* D within the cap, dailyStats has exactly D entries and each entry's clicks
\* is the number of clicks applied on that entry's day.
C9_OneEntryPerDay ==
  \A d \in store :
    LET log == hist[d.id].log
    IN  Cardinality(DaysOf(log)) <= DailyCap
        => /\ Len(d.dailyStats) = Cardinality(DaysOf(log))
           /\ \A i \in 1..Len(d.dailyStats) :
                d.dailyStats[i].clicks = ClicksOn(log, d.dailyStats[i].date)

\* C10: in every reachable state recentClicks has at most as many entries as
\* its $slice keeps (1000) and dailyStats at most as many as its $slice keeps
\* (365).
C10_ArraysBounded ==
  \A d \in store :
    /\ Len(d.recentClicks) <= RecentCap
    /\ Len(d.dailyStats) <= DailyCap

\* both arrays are full: a recent click has been dropped and a day evicted
C10_Witness ==
  \E d \in store :
    /\ d.clicks > RecentCap
    /\ Len(d.recentClicks) = RecentCap
    /\ hist[d.id].dailyEvicted
    /\ Len(d.dailyStats) = DailyCap

\* C11: recentClicks holds exactly the most recently recorded clicks, in the
\* order in which they were recorded: once more clicks than the window keeps
\* have been applied, each new click has pushed out the oldest retained
\* entry and never a newer one.
C11_RecentClicksAreLatest ==
  \A d \in store :
    LET log == hist[d.id].log
        n == Len(log)
        k == Len(d.recentClicks)
    IN  /\ k = Min(n, RecentCap)
        /\ \A i \in 1..k : d.recentClicks[i].timestamp = log[n - k + i]

\* the window slid: the first recorded click, taken at another time than the
\* later ones, is no longer retained
C11_Witness ==
  \E d \in store :
    /\ Len(hist[d.id].log) > RecentCap
    /\ \A i \in 1..Len(d.recentClicks) :
         d.recentClicks[i].timestamp # hist[d.id].log[1]

\* C12: in every reachable state the timestamps of recentClicks are
\* non-decreasing along the sequence, for any interleaving of concurrent
\* incrementClicks calls.
C12_RecentClicksChronological ==
  \A d \in store :
    \A i \in 1..Len(d.recentClicks) : \A j \in 1..Len(d.recentClicks) :
      i <= j => d.recentClicks[i].timestamp <= d.recentClicks[j].timestamp

\* C13: in every reachable state lastClicked is absent when no click has
\* been recorded on the record, and otherwise is the greatest timestamp
\* among all the clicks recorded on it so far.
C13_LastClickedIsLatest ==
  \A d \in store :
    LET log == hist[d.id].log
    IN  IF log = << >>
        THEN d.lastClicked = NoTime
        ELSE /\ \E i \in 1..Len(log) : d.lastClicked = log[i]
             /\ \A i \in 1..Len(log) : d.lastClicked >= log[i]

\* C14: across every step of every sequence of redirect and recordClick,
\* bulk-click, analytics and owner update requests, the clicks counter of a
\* record that is still stored never decreases.
C14_ClicksNeverDecrease ==
  [][ \A d \in store : \A e \in store' : e.id = d.id => e.clicks >= d.clicks ]_vars

\* a record that was clicked as often as a run allows, then given another
\* originalUrl by its owner and read by an analytics request
C14_Witness ==
  \E d \in store :
    /\ d.clicks = MaxClicks
    /\ d.originalUrl = "https://b.example"
    /\ \E k \in ClickReqs :
         /\ kreq[k].pc = "done" /\ kreq[k].status = 200
         /\ kreq[k].urlId = d.id /\ kreq[k].seen = d.clicks

\* C15: a redirect request whose lookup found an active record always ends
\* with the 302 redirect to the originalUrl it looked up, whether its click
\* was recorded, the recording failed with a store error, or the record was
\* deleted or deactivated in the meantime.
C15_RedirectAlwaysIssued ==
  \A k \in ClickReqs :
    ( /\ kreq[k].pc = "done"
      /\ kreq[k].shortCode # NoCode
      /\ kreq[k].urlId # NoId )
    => /\ kreq[k].status = 302
       /\ kreq[k].originalUrl \in Urls

\* a redirect was answered although its update failed on a store error: the
\* record is still stored and no click has been counted on it
C15_Witness ==
  \E k \in ClickReqs :
    /\ kreq[k].pc = "done" /\ kreq[k].shortCode # NoCode
    /\ kreq[k].status = 302
    /\ ~kreq[k].recorded
    /\ kreq[k].clickNow # NoTime
    /\ \E d \in store : d.id = kreq[k].urlId /\ d.clicks = 0

\* redirect request k gives its answer in this step
Answers(k) ==
  /\ kreq[k].pc \in {"refetch", "update"}
  /\ kreq'[k].pc = "done"

C17_GeneratedCodeHasLength ==
  \A r \in CreateReqs :
    creq[r].pc = "insert"
    => /\ Len(creq[r].shortCode) = creq[r].length
       /\ \A i \in 1..Len(creq[r].shortCode) :
            creq[r].shortCode[i] \in 0..(AlphabetSize - 1)

\* some candidate of the attempt loop for this length is in the store
SomeCandidateStored(length) ==
  \E bytes \in RandomBytes(length) : FindByShortCode(RandomCode(bytes)) # {}

\* some code the fallback can give for this length now is in the store
SomeFallbackStored(length) ==
  \E random \in RandomTails : FindByShortCode(FallbackCode(now, random, length)) # {}

\* C18: generateShortCode fails only at its fallback, after all maxAttempts
\* random candidates and then the fallback candidate were each found in the
\* store when looked up; in every other case it returns the candidate it
\* has just found absent: a pass of the loop goes on only when its candidate
\* is stored, the loop never makes more than maxAttempts lookups, and the
\* fallback makes one more.
C18_FailsOnlyWhenExhausted ==
  [][ \A r \in CreateReqs :
        LET q == creq[r]
            p == creq'[r]
        IN  ( p # q /\ p.pc \in {"gen", "fallback", "insert", "done"} )
            => /\ p.pc = "gen"
                    => /\ q.pc \in {"idle", "done", "insert", "gen"}
                       /\ p.attempt = (IF q.pc = "gen" THEN q.attempt ELSE 0) + 1
                       /\ p.attempt < maxAttempts
                       /\ SomeCandidateStored(p.length)
               /\ p.pc = "fallback"
                    => /\ (IF q.pc = "gen" THEN q.attempt ELSE 0) + 1 = maxAttempts
                       /\ SomeCandidateStored(p.length)
               /\ p.pc = "insert"
                    => /\ FindByShortCode(p.shortCode) = {}
                       /\ q.pc = "gen" => q.attempt < maxAttempts
               /\ p.pc = "done"
                    => /\ q.pc = "fallback"
                       /\ p.status = 500
                       /\ SomeFallbackStored(q.length)
    ]_vars

\* the generator gave up: the collection holds both random candidates and
\* the fallback code of the moment
C18_Witness ==
  \E r \in CreateReqs :
    /\ creq[r].pc = "done" /\ creq[r].status = 500
    /\ SomeFallbackStored(creq[r].length)
    /\ \A bytes \in RandomBytes(creq[r].length) :
         FindByShortCode(RandomCode(bytes)) # {}

C20_RetriesOnce ==
  [][ \A r \in CreateReqs :
        LET q == creq[r]
            p == creq'[r]
        IN  ( q.pc = "insert" /\ p # q )
            => /\ Len(q.rejected) <= 1
               /\ Len(q.rejected) = 1 => ( q.rejected = << "shortCode" >> /\ q.retry )
               /\ ( q.rejected = << >> /\ p.rejected = << "shortCode" >> )
                    => ( p.pc = "gen" /\ p.retry /\ store' = store )
               /\ Len(p.rejected) = 2
                    => /\ p.pc = "done" /\ p.status = 500
                       /\ p.respId = NoId
                       /\ store' = store
    ]_vars

\* both inserts of a request collided on shortCode and it reported failure
C20_Witness ==
  \E r \in CreateReqs :
    /\ creq[r].pc = "done"
    /\ creq[r].rejected = << "shortCode", "shortCode" >>
    /\ creq[r].status = 500

\* the format rules of a short code: 4 to 10 characters of the alphabet
WellFormed(code) ==
  /\ Len(code) \in 4..10
  /\ \A i \in 1..Len(code) : code[i] < AlphabetSize

\* C21: a create request whose customCode breaks the format rules (a
\* character outside the alphabet, fewer than 4 or more than 10 characters)
\* is answered 400 with no record in the step that receives it, and that
\* step leaves the store as it was.
C21_MalformedCustomCodeRejected ==
  [][ \A r \in CreateReqs :
        LET p == creq'[r]
        IN  ( p # creq[r] /\ p.customCode # NoCode /\ ~WellFormed(p.customCode) )
            => /\ p.pc = "done" /\ p.status = 400
               /\ p.respId = NoId /\ p.rejected = << >>
               /\ store' = store /\ nextId' = nextId
    ]_vars

\* a code that is too short and a code with a foreign character were both
\* refused while the collection holds a record
C21_Witness ==
  \E r1 \in CreateReqs : \E r2 \in CreateReqs :
    /\ creq[r1].pc = "done" /\ creq[r1].status = 400
    /\ creq[r1].customCode # NoCode /\ Len(creq[r1].customCode) < 4
    /\ creq[r2].pc = "done" /\ creq[r2].status = 400
    /\ \E i \in 1..Len(creq[r2].customCode) : creq[r2].customCode[i] >= AlphabetSize
    /\ store # {}

\* C22: a create request that supplies a well-formed customCode and is
\* answered 201 has created its record under exactly that customCode; it
\* never stores a record under another code.
C22_CustomCodeKept ==
  \A r \in CreateReqs :
    ( /\ creq[r].pc = "done"
      /\ creq[r].status = 201
      /\ creq[r].customCode # NoCode )
    => /\ creq[r].respCode = creq[r].customCode
       /\ \E d \in store : d.id = creq[r].respId /\ d.shortCode = creq[r].customCode

\* C23: getUrlAnalytics is a pure read: a step in which a request is answered
\* by getUrlAnalytics (200, 404 or 500) leaves every stored record and every
\* account counter as it was.
C23_AnalyticsIsPureRead ==
  [][ ( \E k \in ClickReqs : /\ kreq'[k] # kreq[k]
                             /\ kreq'[k].op = "analytics" )
      => /\ store' = store
         /\ acct' = acct
    ]_vars

\* the owner was shown the analytics of a record that has clicks, while a
\* totalClicks callback of the owner is still queued
C23_Witness ==
  \E k \in ClickReqs : \E d \in store :
    /\ kreq[k].op = "analytics" /\ kreq[k].status = 200
    /\ kreq[k].urlId = d.id
    /\ kreq[k].report.totalClicks >= 1
    /\ d.clicks = kreq[k].report.totalClicks
    /\ acct[d.userId].pending >= 1

\* C24: getUrlAnalytics succeeds whenever the owner's record exists: entries
\* of recentClicks with no referer, or with a referer that is no URL, are
\* left out of topReferrers, and every other entry adds 1 to the count of
\* its hostname.
C24_AnalyticsSkipsBadReferers ==
  [][ \A k \in ClickReqs :
        ( /\ kreq'[k] # kreq[k]
          /\ kreq'[k].op = "analytics"
          /\ kreq'[k].status # 404 )
        => \E d \in store :
             LET counted == { i \in 1..Len(d.recentClicks) :
                                IsUrl(d.recentClicks[i].referer) }
                 top == kreq'[k].report.topReferrers
             IN  /\ d.id = kreq'[k].urlId
                 /\ kreq'[k].status = 200
                 /\ DOMAIN top = { Hostname(d.recentClicks[i].referer) : i \in counted }
                 /\ \A h \in DOMAIN top :
                      top[h] = Cardinality({ i \in counted :
                                 Hostname(d.recentClicks[i].referer) = h })
    ]_vars

\* C25: the weeklyClicks that getUrlAnalytics reports is the sum of the
\* dailyStats entries dated on or after today minus seven days, today being
\* the request's time truncated to the day: the entry dated exactly seven
\* days before today counts at any time of day.
C25_WeeklyClicksFromDayStart ==
  [][ \A k \in ClickReqs :
        ( /\ kreq'[k] # kreq[k]
          /\ kreq'[k].op = "analytics"
          /\ kreq'[k].status = 200 )
        => \E d \in store :
             /\ d.id = kreq'[k].urlId
             /\ kreq'[k].report.weeklyClicks =
                  SumClicks(SelectSeq(d.dailyStats,
                     LAMBDA stat : /\ stat.date # NoTime
                                   /\ stat.date >= DayStart(now) - WeekDays * TicksPerDay))
    ]_vars

\* the clicks applied so far to the records that account u created
AppliedFor(u) ==
  IF u = "u1" THEN Len(hist[1].log) ELSE 0

\* C26: the best-effort increment of the owner's totalClicks runs once for
\* each recorded click, whether it succeeds or fails: the step in which it
\* runs changes no record, no request and no response, and a failed
\* increment is not queued again.
C26_TotalClicksBestEffort ==
  /\ [][ ( \E u \in Users : acct'[u].ran # acct[u].ran )
         => /\ store' = store
            /\ kreq' = kreq
            /\ hist' = hist
       ]_vars
  /\ [] ( \A u \in Users :
            /\ acct[u].ran + acct[u].pending = AppliedFor(u)
            /\ acct[u].totalClicks <= acct[u].ran )

\* a visitor was redirected and the click is on the record, while the
\* increment of the owner's totalClicks ran, failed, and is not queued
C26_Witness ==
  \E k \in ClickReqs : \E d \in store :
    /\ kreq[k].pc = "done" /\ kreq[k].status = 302 /\ kreq[k].recorded
    /\ d.id = kreq[k].urlId /\ d.clicks = 1
    /\ acct[d.userId].ran = 1
    /\ acct[d.userId].totalClicks = 0
    /\ acct[d.userId].pending = 0

\* C27: a redirect is issued only if, at the lookup, the record exists, is
\* active, and has no expiryDate or one strictly in the future; for a
\* missing, inactive or expired record (an expiryDate equal to the current
\* time included) the request is answered without a redirect and records
\* no click.
C27_RedirectOnlyBeforeExpiry ==
  [][ \A k \in ClickReqs :
        ( /\ kreq[k].pc \in {"idle", "done"}
          /\ kreq'[k] # kreq[k]
          /\ kreq'[k].op = "redirect" )
        => LET usable == { d \in store :
                            /\ d.shortCode = kreq'[k].shortCode
                            /\ d.isActive
                            /\ (d.expiryDate = NoTime \/ d.expiryDate > now) }
           IN  /\ store' = store
               /\ IF usable = {}
                  THEN kreq'[k].pc = "done" /\ kreq'[k].status \in {404, 410}
                  ELSE kreq'[k].pc = "refetch"
    ]_vars

\* C28: the shortCode of a record never changes: whatever a step does (a
\* click, a bulk report, the owner's update, the save that follows a create,
\* the retry of another create), a record that is still stored after the
\* step carries the shortCode it had before.
C28_ShortCodeImmutable ==
  [][ \A d \in store : \A e \in store' :
        e.id = d.id => e.shortCode = d.shortCode
    ]_vars

\* a record that was clicked, pointed to another destination and switched
\* off still answers to the code it was created with
C28_Witness ==
  \E d \in store :
    /\ d.id = 1
    /\ d.clicks >= 1
    /\ d.originalUrl = "https://b.example"
    /\ ~d.isActive
    /\ d.shortCode = RandomCode([i \in 1..DefaultLength |-> 0])

\* C29: a click whose day is d changes the dailyStats of its record only by
\* adding 1 to an entry dated d in place, or by appending {date: d,
\* clicks: 1} and evicting what exceeds the cap; it never raises the count
\* of an entry dated other than d, whatever other clicks were applied
\* between its read and its update.
C29_ClickCountsItsOwnDay ==
  [][ \A d \in store : \A e \in store' :
        ( /\ e.id = d.id
          /\ Len(hist'[d.id].log) = Len(hist[d.id].log) + 1 )
        => LET log == hist'[d.id].log
               day == DayStart(log[Len(log)])
           IN  \/ \E i \in 1..Len(d.dailyStats) :
                    /\ d.dailyStats[i].date = day
                    /\ e.dailyStats = [ d.dailyStats EXCEPT ![i].clicks = @ + 1 ]
               \/ e.dailyStats =
                    SliceLast(Append(d.dailyStats, [ date |-> day, clicks |-> 1 ]),
                              DailyCap)
    ]_vars

\* C30: no click is ever recorded on an inactive record: whenever a click
\* update is applied, by a redirect or by a bulk report, the record it is
\* applied to has isActive true at that moment.
C30_ClicksOnlyWhileActive ==
  [][ \A d \in store :
        Len(hist'[d.id].log) = Len(hist[d.id].log) + 1 => d.isActive
    ]_vars

\* C31: an owner can always soft-delete an own record: for every active
\* record of the collection, the update that sets its isActive to false is
\* accepted by the store, whatever other records the owner holds, and
\* leaves the record inactive.
C31_OwnerCanAlwaysSoftDelete ==
  \A d \in store :
    d.isActive =>
      LET nd == ApplyUpdateData(d, [ originalUrl |-> Undefined, isActive |-> "false" ])
      IN  /\ ~nd.isActive
          /\ ~ViolatesOwnerUrlIndex(nd, store \ {d})

\* C32: every successful create response, 201 with the new record or 200
\* with the owner's existing one, carries a record that is usable when the
\* response is sent: it is active, and its expiryDate is absent or in the
\* future.
C32_CreateAnswersUsableRecord ==
  [][ \A r \in CreateReqs :
        ( /\ creq'[r] # creq[r]
          /\ creq'[r].pc = "done"
          /\ creq'[r].status \in {200, 201} )
        => \E d \in store' :
             /\ d.id = creq'[r].respId
             /\ d.isActive
             /\ (d.expiryDate = NoTime \/ d.expiryDate > now)
    ]_vars

\* C33: no request authenticated as one user changes a record owned by
\* another: the click fields of a record change only in a step of a
\* redirect served for the record's own shortCode or of a bulk report sent
\* by its owner, and no bulk report or analytics read of another user
\* changes or removes the record.
C33_OnlyOwnerOrRedirectTouches ==
  [][ \A d \in store :
        ( \A e \in store' : e.id = d.id => e # d )
        => \A k \in ClickReqs :
             kreq'[k] # kreq[k]
             => \/ /\ kreq[k].op = "redirect"
                   /\ kreq[k].shortCode = d.shortCode
                \/ /\ kreq[k].op \in {"bulk", "analytics"}
                   /\ kreq[k].caller = d.userId
    ]_vars

\* C34: a record is added to the collection only by a create request that
\* answers 201 with that record: a step in which a request ends in an error
\* response or in the 200 'already exists' response leaves the collection
\* as it was, and every step that changes the collection adds exactly the
\* record that the 201 of that step carries.
C34_OnlyCreatedAnswersStore ==
  [][ /\ \A r \in CreateReqs :
           ( /\ creq'[r] # creq[r]
             /\ creq'[r].pc = "done"
             /\ creq'[r].status # 201 )
           => store' = store
      /\ store' # store
         => \E r \in CreateReqs : \E d \in store' :
              /\ creq'[r] # creq[r]
              /\ creq'[r].pc = "done" /\ creq'[r].status = 201
              /\ creq'[r].respId = d.id /\ creq'[r].respCode = d.shortCode
              /\ d \notin store
              /\ store' = store \cup {d}
    ]_vars

\* one request was answered 201 and stored its record, while another
\* ended in an error after its insert was rejected twice, and the
\* collection holds the one record
C34_Witness ==
  \E r1 \in CreateReqs : \E r2 \in CreateReqs :
    /\ creq[r1].pc = "done" /\ creq[r1].status = 201
    /\ creq[r2].pc = "done" /\ creq[r2].status = 500
    /\ creq[r2].rejected # << >>
    /\ Cardinality(store) = 1
    /\ \E d \in store : d.id = creq[r1].respId

\* C35: every create request ends with a response after a bounded number
\* of store operations: at most two runs of the code generator, each of at
\* most maxAttempts + 1 lookups, at most two inserts and at most one lookup
\* of the owner's existing record; and a request in flight always reaches
\* its response (unless the collection has no room for a further record).
C35_CreateTerminatesBounded ==
  /\ [] ( \A r \in CreateReqs :
            LET o == creq[r].ops
            IN  /\ o.runs <= 2
                /\ o.lookups <= maxAttempts + 1
                /\ o.inserts <= 2
                /\ o.finds <= 1 )
  /\ \A r \in CreateReqs :
       (creq[r].pc \notin {"idle", "done"})
         ~> (creq[r].pc = "done" \/ nextId > MaxRecords)

\* one request ran the generator twice and inserted twice, and a run of
\* the generator went through every attempt and the fallback
C35_Witness ==
  \E r1 \in CreateReqs : \E r2 \in CreateReqs :
    /\ creq[r1].pc = "done"
    /\ creq[r1].ops.runs = 2 /\ creq[r1].ops.inserts = 2
    /\ creq[r2].pc = "done"
    /\ creq[r2].ops.lookups = maxAttempts + 1

\* C36: the owner's totalClicks is raised only for clicks that were applied
\* to a record of the owner, at most once per click, and a request whose
\* click was not recorded queues no increment; when the User collection
\* does not fail and queued callbacks are run, every applied click is in
\* the end followed by its one increment.
C36_TotalClicksFollowsClicks ==
  /\ [] ( \A u \in Users :
            acct[u].totalClicks + acct[u].pending = AppliedFor(u) )
  /\ [][ \A k \in ClickReqs :
           ( /\ kreq'[k] # kreq[k]
             /\ kreq'[k].pc = "done"
             /\ ~kreq'[k].recorded )
           => acct' = acct
       ]_vars
  /\ \A u \in Users : \A n \in 1..MaxClicks :
       (AppliedFor(u) >= n) ~> (acct[u].totalClicks >= n)

\* two clicks were applied and the owner's totalClicks is 2 with nothing
\* queued, while a visitor whose click could not be recorded was redirected
C36_Witness ==
  /\ AppliedFor("u1") = 2
  /\ acct["u1"].totalClicks = 2
  /\ acct["u1"].pending = 0
  /\ \E k \in ClickReqs :
       /\ kreq[k].pc = "done" /\ kreq[k].status = 302
       /\ kreq[k].urlId # NoId /\ ~kreq[k].recorded

\* C37: a create with no customCode that is answered 201 has stored a record
\* with a 6-character shortCode, clicks 0, no lastClicked, isActive true and
\* empty recentClicks and dailyStats.
C37_CreatedRecordDefaults ==
  [][ \A r \in CreateReqs :
        ( /\ creq'[r] # creq[r]
          /\ creq'[r].pc = "done"
          /\ creq'[r].status = 201
          /\ creq'[r].customCode = NoCode )
        => \E d \in store' :
             /\ d.id = creq'[r].respId
             /\ d \notin store
             /\ Len(d.shortCode) = 6
             /\ d.clicks = 0
             /\ d.lastClicked = NoTime
             /\ d.isActive
             /\ d.recentClicks = << >>
             /\ d.dailyStats = << >>
    ]_vars

====
